---- MODULE Spec2Model ----
(***************************************************************************)
(* A model of the grid room (typeclasses/rooms.py, class GridRoom) and of  *)
(* the step command (commands/command.py, class CmdStep).                  *)
(*                                                                         *)
(* A coordinate (x, y) is the tuple <<x, y>>.  The room's grid, a Python   *)
(* dict keyed by coordinates, is a function whose DOMAIN is the set of     *)
(* cells that are set.  The door registry is a Python dict whose iteration *)
(* order matters to render_grid, so it is a sequence of entries in         *)
(* insertion order.  An unset attribute (None) of the player's position is *)
(* the empty tuple.                                                        *)
(***************************************************************************)
EXTENDS Integers, Sequences, FiniteSets, TLC

VARIABLES
    grid,        \* GridRoom.db.grid: coordinate -> symbol
    doors,       \* GridRoom.db.doors: entries [key, grid_position, destination]
    exits,       \* the room's exits: direction -> destination
    position,    \* caller.db.position: <<x, y>>, or <<>> when unset
    location,    \* caller.location: "GridRoom", "Room" or "None"
    last,        \* the last call made and what it returned or raised
    firstAdded,  \* history: directions in the order of their first successful add_door
    lastAdded    \* history: direction of the most recent successful add_door

vars == <<grid, doors, exits, position, location, last, firstAdded, lastAdded>>

----------------------------------------------------------------------------
(* Bounds of the model.                                                    *)

\* Widths, heights and leg lengths handed to the layout generators: 0..MaxDim.
MaxDim == 3
\* Radii handed to build_circle: 0..MaxRadius.
MaxRadius == 1
\* Door grid positions handed to add_door: (0,0) .. (MaxDoorX,0).
MaxDoorX == 1
\* How many of the recognized directions the door-collision runs register.
NumDirs == 2
\* In the door-limit runs a new direction is one of the first MaxSkip
\* directions, in list order, that are not registered yet.
MaxSkip == 2

----------------------------------------------------------------------------
(* Python helpers.                                                         *)

Range(n) == 0 .. (n - 1)

Max(S) == CHOOSE m \in S : \A n \in S : n <= m

EmptyDict == [c \in {} |-> ""]

\* The ordered dict: keys, membership, lookup, d[k] = v.
DictKeys(d) == {d[i].key : i \in 1 .. Len(d)}

DictIndex(d, k) == CHOOSE i \in 1 .. Len(d) : d[i].key = k

DictGet(d, k) == d[DictIndex(d, k)]

\* Assigning to a key the dict holds keeps the key's place in the order;
\* a new key goes to the end.
DictSet(d, k, pos, dest) ==
    LET e == [key |-> k, grid_position |-> pos, destination |-> dest]
    IN  IF k \in DictKeys(d)
        THEN [d EXCEPT ![DictIndex(d, k)] = e]
        ELSE Append(d, e)

----------------------------------------------------------------------------
(* GridRoom.add_door and GridRoom.create_exit.                             *)

MaxDoors == 10

valid_directions ==
    << "north", "south", "east", "west", "northeast", "northwest",
       "southeast", "southwest", "up", "down" >>

ValidDirectionSet == {valid_directions[i] : i \in 1 .. Len(valid_directions)}

\* Faulty variant: add_door without its two checks.
AddDoorErrorNever(d, direction) == "none"

\* Faulty variant: the limit applies to new directions only.
AddDoorErrorNewOnly(d, direction) ==
    IF Len(d) >= MaxDoors /\ direction \notin DictKeys(d) THEN "max"
    ELSE IF direction \notin ValidDirectionSet THEN "invalid"
    ELSE "none"

\* The two checks of add_door, in the order the code makes them.
AddDoorError(d, direction) ==
    IF Len(d) >= MaxDoors THEN "max"
    ELSE IF direction \notin ValidDirectionSet THEN "invalid"
    ELSE "none"

\* create_exit: an exit is created only when the room has none under that key.
CreateExit(e, direction, destination) ==
    IF direction \in DOMAIN e
    THEN e
    ELSE [k \in DOMAIN e \cup {direction} |->
            IF k = direction THEN destination ELSE e[k]]

AddDoor(direction, grid_position, destination) ==
    LET err == AddDoorError(doors, direction)
        call == [op |-> "add_door", direction |-> direction,
                 grid_position |-> grid_position, destination |-> destination]
    IN  IF err # "none"
        THEN /\ last' = call @@ [raised |-> TRUE]
             /\ UNCHANGED <<grid, doors, exits, position, location,
                            firstAdded, lastAdded>>
        ELSE /\ doors' = DictSet(doors, direction, grid_position, destination)
             /\ exits' = CreateExit(exits, direction, destination)
             /\ last' = call @@ [raised |-> FALSE]
             /\ firstAdded' = IF direction \in DictKeys(doors)
                              THEN firstAdded
                              ELSE Append(firstAdded, direction)
             /\ lastAdded' = direction
             /\ UNCHANGED <<grid, position, location>>

----------------------------------------------------------------------------
(* Grid cells.                                                             *)

None == "None"

\* get_grid_cell: the stored symbol, or None for a cell that is not set.
GetGridCell(g, c) == IF c \in DOMAIN g THEN g[c] ELSE None

\* g[c] = content on a dict keyed by coordinates.
Assign(g, c, content) ==
    [k \in DOMAIN g \cup {c} |-> IF k = c THEN content ELSE g[k]]

SetGridCell(x, y, content) ==
    /\ grid' = Assign(grid, <<x, y>>, content)
    /\ last' = [op |-> "set_grid_cell", x |-> x, y |-> y, content |-> content]
    /\ UNCHANGED <<doors, exits, position, location, firstAdded, lastAdded>>

----------------------------------------------------------------------------
(* GridRoom.render_grid.                                                   *)

\* k.upper()[0] for the direction names the model hands to add_door.
DoorLetter ==
    [north |-> "N", south |-> "S", east |-> "E", west |-> "W",
     northeast |-> "N", northwest |-> "N", southeast |-> "S",
     southwest |-> "S", up |-> "U", down |-> "D", in |-> "I"]

\* Faulty variant: the first entry at a grid position is kept.
RECURSIVE DoorPositionsFirstWins(_)
DoorPositionsFirstWins(d) ==
    IF d = <<>> THEN EmptyDict
    ELSE LET rest == DoorPositionsFirstWins(SubSeq(d, 1, Len(d) - 1))
             e == d[Len(d)]
         IN  IF e.grid_position \in DOMAIN rest
             THEN rest
             ELSE Assign(rest, e.grid_position, DoorLetter[e.key])

\* The dict comprehension over doors.items(): entries are taken in the
\* dict's order and a later entry replaces an earlier one at the same key.
RECURSIVE DoorPositions(_)
DoorPositions(d) ==
    IF d = <<>> THEN EmptyDict
    ELSE LET rest == DoorPositions(SubSeq(d, 1, Len(d) - 1))
             e == d[Len(d)]
         IN  Assign(rest, e.grid_position, DoorLetter[e.key])

\* The rendered text as its rows, first row first, each row its characters.
RenderRows(g, d) ==
    LET max_x == Max({c[1] : c \in DOMAIN g})
        max_y == Max({c[2] : c \in DOMAIN g})
        door_positions == DoorPositions(d)
    IN  [r \in 1 .. (max_y + 1) |->
            [i \in 1 .. (max_x + 1) |->
                LET c == <<i - 1, max_y - (r - 1)>>
                IN  IF c \in DOMAIN door_positions
                    THEN door_positions[c]
                    ELSE IF c \in DOMAIN g THEN g[c] ELSE " "]]

RenderGrid ==
    /\ last' = IF DOMAIN grid = {}
               THEN [op |-> "render_grid", empty |-> TRUE, rows |-> <<>>]
               ELSE [op |-> "render_grid", empty |-> FALSE,
                     rows |-> RenderRows(grid, doors)]
    /\ UNCHANGED <<grid, doors, exits, position, location, firstAdded, lastAdded>>

----------------------------------------------------------------------------
(* The layout generators.                                                  *)

Rectangle(width, height) == Range(width) \X Range(height)

\* Faulty variant: the east edge is tested one column too far.
AutoGridOpenEast(width, height) ==
    [c \in Rectangle(width, height) |->
        IF c[1] = 0 \/ c[2] = 0 \/ c[1] = width \/ c[2] = height - 1
        THEN "#" ELSE "."]

\* The rectangle of auto_build_grid and reset_grid: '#' on the edges.
AutoGrid(width, height) ==
    [c \in Rectangle(width, height) |->
        IF c[1] = 0 \/ c[2] = 0 \/ c[1] = width - 1 \/ c[2] = height - 1
        THEN "#" ELSE "."]

AutoBuildGrid(width, height) ==
    /\ grid' = AutoGrid(width, height)
    /\ last' = [op |-> "auto_build_grid", width |-> width, height |-> height]
    /\ UNCHANGED <<doors, exits, position, location, firstAdded, lastAdded>>

\* Faulty variant: a reset that also forgets where the player stands.
ResetGridAndPosition(width, height) ==
    /\ grid' = AutoGrid(width, height)
    /\ position' = <<>>
    /\ last' = [op |-> "reset_grid", width |-> width, height |-> height]
    /\ UNCHANGED <<doors, exits, location, firstAdded, lastAdded>>

ResetGrid(width, height) ==
    /\ grid' = AutoGrid(width, height)
    /\ last' = [op |-> "reset_grid", width |-> width, height |-> height]
    /\ UNCHANGED <<doors, exits, position, location, firstAdded, lastAdded>>

\* sqrt(dx^2 + dy^2) <= radius, on integers: dx^2 + dy^2 <= radius^2.
CircleGrid(radius) ==
    [c \in Rectangle(2 * radius + 1, 2 * radius + 1) |->
        IF (c[1] - radius) * (c[1] - radius) + (c[2] - radius) * (c[2] - radius)
              <= radius * radius
        THEN "." ELSE "#"]

BuildCircle(radius) ==
    /\ grid' = CircleGrid(radius)
    /\ last' = [op |-> "build_circle", radius |-> radius]
    /\ UNCHANGED <<doors, exits, position, location, firstAdded, lastAdded>>

\* Faulty variant: two one-cell-wide strips meeting at the origin.
LShapeWalkableCorner(width, height, leg_length) ==
    Rectangle(width, 1) \cup Rectangle(1, leg_length)

\* The cells the two loops of build_l_shape set to ".".
LShapeWalkable(width, height, leg_length) ==
    Rectangle(width, height) \cup Rectangle(leg_length, height)

\* The grid build_l_shape ends with; max() has raised when no cell was set.
LShapeGrid(width, height, leg_length) ==
    LET walk == LShapeWalkable(width, height, leg_length)
        max_x == Max({c[1] : c \in walk})
        max_y == Max({c[2] : c \in walk})
    IN  [c \in Rectangle(max_x + 1, max_y + 1) |->
            IF c \in walk THEN "." ELSE "#"]

BuildLShape(width, height, leg_length) ==
    LET call == [op |-> "build_l_shape", width |-> width, height |-> height,
                 leg_length |-> leg_length]
    IN  IF LShapeWalkable(width, height, leg_length) = {}
        THEN /\ last' = call @@ [raised |-> TRUE]
             /\ UNCHANGED <<grid, doors, exits, position, location,
                            firstAdded, lastAdded>>
        ELSE /\ grid' = LShapeGrid(width, height, leg_length)
             /\ last' = call @@ [raised |-> FALSE]
             /\ UNCHANGED <<doors, exits, position, location,
                            firstAdded, lastAdded>>

\* A floorplan is a sequence of rows, a row a sequence of characters; the
\* last row of the floorplan is y = 0.
FloorplanGrid(floorplan) ==
    LET n == Len(floorplan)
        cells == UNION {{<<x, y>> : x \in Range(Len(floorplan[n - y]))} :
                          y \in Range(n)}
    IN  [c \in cells |-> floorplan[n - c[2]][c[1] + 1]]

BuildCustomFloorplan(floorplan) ==
    /\ grid' = FloorplanGrid(floorplan)
    /\ last' = [op |-> "build_custom_floorplan", floorplan |-> floorplan]
    /\ UNCHANGED <<doors, exits, position, location, firstAdded, lastAdded>>

----------------------------------------------------------------------------
(* CmdStep.func.                                                           *)

\* Faulty variant: north and south exchanged.
directionsNorthDown ==
    [north |-> <<0, -1>>, south |-> <<0, 1>>, east |-> <<1, 0>>, west |-> <<-1, 0>>]

\* Mapping of directions to grid offsets.
directions ==
    [north |-> <<0, 1>>, south |-> <<0, -1>>, east |-> <<1, 0>>, west |-> <<-1, 0>>]

\* Faulty variant: the wall symbol the layout generators write.
WallSymbolOfGenerators == "#"

\* The cell content the step command takes for a wall.
WallSymbol == "W"

\* caller.db.position or (0, 0)
CurrentPos(p) == IF p = <<>> THEN <<0, 0>> ELSE p

NewPos(p, direction) ==
    <<CurrentPos(p)[1] + directions[direction][1],
      CurrentPos(p)[2] + directions[direction][2]>>

\* Which return of func the command takes.
StepResult(direction, loc, p, g) ==
    IF direction \notin DOMAIN directions THEN "invalid_direction"
    ELSE IF loc # "GridRoom" THEN "not_here"
    ELSE LET cell_content == GetGridCell(g, NewPos(p, direction))
         IN  IF cell_content = WallSymbol THEN "wall"
             ELSE IF cell_content = None THEN "no_way"
             ELSE "ok"

\* Faulty variant: the position is written before the wall check returns.
StepCommitsIntoWall(result) == result \in {"ok", "wall"}

\* func writes caller.db.position only after the last of its returns.
StepCommits(result) == result = "ok"

Step(direction) ==
    LET result == StepResult(direction, location, position, grid)
    IN  /\ position' = IF StepCommits(result)
                       THEN NewPos(position, direction)
                       ELSE position
        /\ last' = [op |-> "step", direction |-> direction, result |-> result]
        /\ UNCHANGED <<grid, doors, exits, location, firstAdded, lastAdded>>

----------------------------------------------------------------------------
(* The inputs of the runs.                                                 *)

Locations == {"GridRoom", "Room", "None"}

StepTokens == {"north", "south", "east", "west", "up", ""}

Symbols == {".", "#", "W"}

SetCells == {<<1, 1>>, <<2, 2>>}

Dims == 0 .. MaxDim

\* The room sizes of the runs that walk the player about.
RoomDims == {1, MaxDim}

Floorplans ==
    LET rows == {<<".">>, <<"#", "W">>}
    IN  {<<>>} \cup {<<r>> : r \in rows} \cup {<<r, q>> : r \in rows, q \in rows}

Destinations == {"hall", "cellar"}

DoorCells == {<<x, 0>> : x \in 0 .. MaxDoorX}

DoorDirections ==
    {valid_directions[i] : i \in 1 .. NumDirs} \cup {"in"}

\* The directions the door-limit runs hand to add_door when the registry is d.
Offered(d) ==
    LET free(i) == valid_directions[i] \notin DictKeys(d)
        next == {i \in 1 .. Len(valid_directions) :
                    /\ free(i)
                    /\ Cardinality({j \in 1 .. (i - 1) : free(j)}) < MaxSkip}
    IN  DictKeys(d) \cup {"in"} \cup {valid_directions[i] : i \in next}

----------------------------------------------------------------------------
(* Specifications.                                                         *)

\* at_object_creation: grid and doors empty; the caller's position unset.
Init ==
    /\ grid = EmptyDict
    /\ doors = <<>>
    /\ exits = EmptyDict
    /\ position = <<>>
    /\ location \in Locations
    /\ last = [op |-> "create"]
    /\ firstAdded = <<>>
    /\ lastAdded = ""

\* Step commands interleaved with every operation of the room.
Next ==
    \/ \E direction \in StepTokens : Step(direction)
    \/ \E c \in SetCells, content \in Symbols : SetGridCell(c[1], c[2], content)
    \/ \E direction \in {"north", "in"} : AddDoor(direction, <<0, 0>>, "hall")
    \/ RenderGrid
    \/ \E width \in RoomDims, height \in RoomDims : AutoBuildGrid(width, height)
    \/ \E radius \in 0 .. MaxRadius : BuildCircle(radius)
    \/ \E width \in RoomDims, height \in RoomDims, leg_length \in RoomDims :
          BuildLShape(width, height, leg_length)
    \/ \E floorplan \in Floorplans : BuildCustomFloorplan(floorplan)
    \/ \E width \in RoomDims, height \in RoomDims : ResetGrid(width, height)

Spec == Init /\ [][Next]_vars

\* A room being built, the player elsewhere.
InitBuilder == Init /\ location = "None"

\* The layout generators with every size, over whatever the grid held.
NextLayout ==
    \/ \E c \in SetCells, content \in Symbols : SetGridCell(c[1], c[2], content)
    \/ \E width \in Dims, height \in Dims : AutoBuildGrid(width, height)
    \/ \E radius \in 0 .. MaxRadius : BuildCircle(radius)
    \/ \E width \in Dims, height \in Dims, leg_length \in Dims :
          BuildLShape(width, height, leg_length)
    \/ \E floorplan \in Floorplans : BuildCustomFloorplan(floorplan)
    \/ \E width \in Dims, height \in Dims : ResetGrid(width, height)

SpecLayout == InitBuilder /\ [][NextLayout]_vars

\* A room being built: doors at a few cells of a one-row grid, rendered.

NextDoors ==
    \/ \E direction \in DoorDirections, grid_position \in DoorCells,
          destination \in Destinations :
          AddDoor(direction, grid_position, destination)
    \/ RenderGrid
    \/ \E width \in 1 .. (MaxDoorX + 1) : AutoBuildGrid(width, 1)

SpecDoors == InitBuilder /\ [][NextDoors]_vars

\* A room being filled with doors up to the limit.
NextDoorLimit ==
    \E direction \in Offered(doors) : AddDoor(direction, <<0, 0>>, "hall")

SpecDoorLimit == InitBuilder /\ [][NextDoorLimit]_vars

----------------------------------------------------------------------------
(* The claims.                                                             *)

Cardinals == {"north", "south", "east", "west"}

\* The unit offset the specification gives each direction.
UnitOffset(direction) ==
    CASE direction = "north" -> <<0, 1>>
      [] direction = "south" -> <<0, -1>>
      [] direction = "east" -> <<1, 0>>
      [] direction = "west" -> <<-1, 0>>

\* Current position, an unset one read as (0,0), plus the unit offset.
Destination(direction) ==
    LET cur == IF position = <<>> THEN <<0, 0>> ELSE position
    IN  <<cur[1] + UnitOffset(direction)[1], cur[2] + UnitOffset(direction)[2]>>

\* C1: whatever add_door calls were made on a fresh room, the door registry
\* holds at most 10 doors.
C1_AtMostTenDoors == Len(doors) <= 10

C1_Witness ==
    /\ last.op = "add_door"
    /\ ~last.raised
    /\ Len(doors) = 10

\* C5: an add_door call made when the room has 10 doors (also for a
\* direction that is registered) or with a direction outside the 10
\* recognized ones raises, and leaves the doors and the exits as they were.
C5_AddDoorRaisesUnchanged ==
    [][(/\ last'.op = "add_door"
        /\ \/ Len(doors) >= 10
           \/ last'.direction \notin ValidDirectionSet)
       => (last'.raised /\ doors' = doors /\ exits' = exits)]_vars

C5_Witness ==
    /\ last.op = "add_door"
    /\ last.raised
    /\ Len(doors) = 10
    /\ last.direction \in DictKeys(doors)

\* C6: after a successful add_door the room has the door under that
\* direction and an exit in that direction pointing at the destination of
\* that call.
C6_ExitPointsAtDestination ==
    (last.op = "add_door" /\ ~last.raised)
    => /\ last.direction \in DictKeys(doors)
       /\ last.direction \in DOMAIN exits
       /\ exits[last.direction] = last.destination

\* The rendered character at cell c, and the cells the rendering covers.
Rendered(c) == last.rows[Len(last.rows) - c[2]][c[1] + 1]

InBox(c) ==
    /\ c[2] \in 0 .. (Len(last.rows) - 1)
    /\ c[1] \in 0 .. (Len(last.rows[1]) - 1)

DoorsAt(c) == {i \in 1 .. Len(doors) : doors[i].grid_position = c}

\* C7, as stated: where doors share a grid position the rendering shows the
\* letter of the door registered last by add_door.  The door of the most
\* recent successful add_door is the last registered of those at its cell.
C7_LastRegisteredWins ==
    (last.op = "render_grid" /\ ~last.empty)
    => \A i \in 1 .. Len(doors) :
          (doors[i].key = lastAdded /\ InBox(doors[i].grid_position))
          => Rendered(doors[i].grid_position) = DoorLetter[lastAdded]

\* C7, amended: a cell at a door's grid position shows a door letter instead
\* of the stored symbol, and where doors share the position it is the letter
\* of the one whose direction was first registered latest.
C7_LastInsertedWins ==
    (last.op = "render_grid" /\ ~last.empty)
    => \A x \in 0 .. (Len(last.rows[1]) - 1), y \in 0 .. (Len(last.rows) - 1) :
          LET c == <<x, y>>
              here == {j \in 1 .. Len(firstAdded) :
                          DictGet(doors, firstAdded[j]).grid_position = c}
          IN  IF here = {}
              THEN Rendered(c) = IF c \in DOMAIN grid THEN grid[c] ELSE " "
              ELSE Rendered(c) = DoorLetter[firstAdded[Max(here)]]

C7_Witness ==
    /\ last.op = "render_grid"
    /\ ~last.empty
    /\ Len(doors) >= 2
    /\ doors[1].grid_position = doors[2].grid_position
    /\ InBox(doors[1].grid_position)
    /\ lastAdded = doors[1].key
    /\ Rendered(doors[1].grid_position) = DoorLetter[doors[2].key]
    /\ DoorLetter[doors[2].key] # DoorLetter[doors[1].key]

\* C2: a step rejected for a direction that is not cardinal, a location that
\* is not a GridRoom, a destination cell holding "W" or an unset destination
\* cell leaves the position, the grid and the doors as they were.
C2_RejectedStepChangesNothing ==
    [][(/\ last'.op = "step"
        /\ \/ last'.direction \notin Cardinals
           \/ location # "GridRoom"
           \/ Destination(last'.direction) \notin DOMAIN grid
           \/ grid[Destination(last'.direction)] = "W")
       => (position' = position /\ grid' = grid /\ doors' = doors)]_vars

C2_Witness ==
    /\ last.op = "step"
    /\ last.direction = "north"
    /\ last.result = "wall"
    /\ position = <<2, 1>>
    /\ grid[<<2, 2>>] = "W"

\* C3: in a GridRoom a step in a cardinal direction succeeds exactly when
\* the cell at position + offset is set and is not "W", and then the
\* position becomes that cell.
C3_StepSucceedsIffOpenCell ==
    [][(/\ last'.op = "step"
        /\ location = "GridRoom"
        /\ last'.direction \in Cardinals)
       => LET dest == Destination(last'.direction)
              open == dest \in DOMAIN grid /\ grid[dest] # "W"
          IN  /\ (last'.result = "ok") <=> open
              /\ open => position' = dest
              /\ ~open => position' = position]_vars

C3_Witness ==
    /\ last.op = "step"
    /\ last.direction = "north"
    /\ last.result = "ok"
    /\ position = <<1, 1>>
    /\ grid = AutoGrid(3, 3)

\* C4: a step whose destination cell holds "#" is accepted and puts the
\* player on that cell.
C4_StepOntoGeneratorWall ==
    [][(/\ last'.op = "step"
        /\ location = "GridRoom"
        /\ last'.direction \in Cardinals
        /\ Destination(last'.direction) \in DOMAIN grid
        /\ grid[Destination(last'.direction)] = "#")
       => (/\ last'.result = "ok"
           /\ position' = Destination(last'.direction))]_vars

C4_Witness ==
    /\ last.op = "step"
    /\ last.result = "ok"
    /\ \E width \in RoomDims, height \in RoomDims : grid = AutoGrid(width, height)
    /\ position \in DOMAIN grid
    /\ grid[position] = "#"

\* C8: the position changes only in a successful step.
C8_OnlyStepMovesPlayer ==
    [][position' # position
       => (last'.op = "step" /\ last'.result = "ok")]_vars

C8_Witness ==
    /\ last.op = "reset_grid"
    /\ position # <<>>
    /\ position \notin DOMAIN grid

\* C9: after auto_build_grid(w, h) the cells are exactly the w by h
\* rectangle, "." inside and "#" on the border.
C9_AutoBuildGridRectangle ==
    (last.op = "auto_build_grid")
    => LET w == last.width
           h == last.height
       IN  /\ DOMAIN grid = {c \in (0 .. (w - 1)) \X (0 .. (h - 1)) : TRUE}
           /\ \A c \in DOMAIN grid :
                 IF 0 < c[1] /\ c[1] < w - 1 /\ 0 < c[2] /\ c[2] < h - 1
                 THEN grid[c] = "."
                 ELSE grid[c] = "#"

C9_Witness ==
    /\ last.op = "auto_build_grid"
    /\ last.width = 3
    /\ last.height = 3
    /\ grid[<<1, 1>>] = "."
    /\ grid[<<2, 2>>] = "#"

\* C10: for positive width, height and leg_length, build_l_shape leaves the
\* full max(width, leg_length) by height rectangle, every cell ".".
C10_LShapeHasNoWall ==
    (/\ last.op = "build_l_shape"
     /\ last.width > 0 /\ last.height > 0 /\ last.leg_length > 0)
    => LET w == IF last.width > last.leg_length THEN last.width
                ELSE last.leg_length
       IN  /\ ~last.raised
           /\ DOMAIN grid = (0 .. (w - 1)) \X (0 .. (last.height - 1))
           /\ \A c \in DOMAIN grid : grid[c] = "."

C10_Witness ==
    /\ last.op = "build_l_shape"
    /\ last.width = 3
    /\ last.height = 2
    /\ last.leg_length = 1
    /\ DOMAIN grid = (0 .. 2) \X (0 .. 1)

====
